---- MODULE Spec2Model ----
(***************************************************************************)
(* Model of the device information panel: DeviceInfo (www/js/device-info.js)*)
(* and App (the application controller, unnamed/part_000).                  *)
(*                                                                          *)
(* String literals of the source that are not ASCII are written as ASCII    *)
(* tags; the table is given next to each definition that uses them.         *)
(***************************************************************************)
EXTENDS Integers, Sequences, FiniteSets, TLC

(***************************************************************************)
(* Bounds of the model (not program constants).                             *)
(***************************************************************************)
MaxEvents == 3        \* calls from outside and environment events explored
MaxAdvances == 3      \* clock advances explored by the uptime specification
LevelDenom == 500     \* battery levels are the fractions k / LevelDenom

VARIABLES
    lsPrefs,          \* localStorage['appPreferences']: [present, text]
    lsStart,          \* localStorage['appStartTime']: ms timestamp, or Absent
    now,              \* Date.now(), in ms
    preferences,      \* App.state.preferences
    deviceInfo,       \* App.state.deviceInfo
    refreshInterval,  \* App.state.refreshInterval (0 is null)
    networkListener,  \* DeviceInfo.networkListener (0 is null)
    timers,           \* interval timers the browser holds active
    nextTimer,        \* id the next setInterval returns
    subs,             \* networkStatusChange subscriptions active on Network
    nextSub,          \* handle the next addListener resolves with
    pendingAdd,       \* Network.addListener calls not yet resolved
    pendingRemove,    \* handle.remove() calls not yet resolved
    prov,             \* the capability providers behind window.Capacitor
    dom,              \* the part of the document the controller drives
    initPc,           \* App.init calls under way: [starting, resuming]
    fetches,          \* loadDeviceInfo calls in flight
    hist,             \* the last operation and what it observed
    events,           \* calls from outside and environment events so far
    advances          \* clock advances made (uptime specification)

vars == <<lsPrefs, lsStart, now, preferences, deviceInfo, refreshInterval,
          networkListener, timers, nextTimer, subs, nextSub,
          pendingAdd, pendingRemove, prov, dom, initPc, fetches, hist,
          events, advances>>

(***************************************************************************)
(* JavaScript values, as far as JSON and the preferences need them.  Every  *)
(* value is a record of one shape: t is the type tag, b / n / s the         *)
(* primitive payload, m the own enumerable members (object: key/value       *)
(* pairs in enumeration order, index keys first and ascending, then the     *)
(* other keys in insertion order; array: the elements), x the named         *)
(* properties set on an array (JSON.stringify ignores them).                *)
(* A JavaScript string (a string value, a property key, a string of a JSON  *)
(* text) is the sequence of its characters: "ab" is <<"a", "b">>.           *)
(***************************************************************************)
JV(t, b, n, s, m, x) == [t |-> t, b |-> b, n |-> n, s |-> s, m |-> m, x |-> x]

Undefined == JV("undefined", FALSE, 0, <<>>, <<>>, <<>>)

JNull == JV("null", FALSE, 0, <<>>, <<>>, <<>>)

JBool(b) == JV("bool", b, 0, <<>>, <<>>, <<>>)

JNum(n) == JV("num", FALSE, n, <<>>, <<>>, <<>>)

JStr(s) == JV("str", FALSE, 0, s, <<>>, <<>>)

JObj(m) == JV("obj", FALSE, 0, <<>>, m, <<>>)

JArr(items, x) == JV("arr", FALSE, 0, <<>>, items, x)

\* the property names of the preferences
autoRefreshKey == <<"a", "u", "t", "o", "R", "e", "f", "r", "e", "s", "h">>

refreshIntervalKey ==
    <<"r", "e", "f", "r", "e", "s", "h", "I", "n", "t", "e", "r", "v", "a", "l">>

showBatteryKey == <<"s", "h", "o", "w", "B", "a", "t", "t", "e", "r", "y">>

showNetworkKey == <<"s", "h", "o", "w", "N", "e", "t", "w", "o", "r", "k">>

showUptimeKey == <<"s", "h", "o", "w", "U", "p", "t", "i", "m", "e">>

Member(k, v) == [k |-> k, v |-> v]

\* ToBoolean, as `if (v)`, `!v` and `v || d` apply it
Truthy(v) ==
    CASE v.t = "bool" -> v.b
      [] v.t = "num" -> v.n # 0
      [] v.t = "str" -> v.s # <<>>
      [] v.t \in {"obj", "arr"} -> TRUE
      [] OTHER -> FALSE

\* reading v.key throws a TypeError exactly on null and undefined
CanRead(v) == v.t \notin {"null", "undefined"}

\* assigning v.key in strict mode (the controller is an ES module) throws a
\* TypeError on null, undefined and on every primitive
CanWrite(v) == v.t \in {"obj", "arr"}

Lookup(ms, key) ==
    IF \E i \in 1..Len(ms) : ms[i].k = key
    THEN ms[CHOOSE i \in 1..Len(ms) : ms[i].k = key].v
    ELSE Undefined

\* v.key, for the keys the controller reads (named properties, no array
\* index)
GetProp(v, key) ==
    CASE v.t = "obj" -> Lookup(v.m, key)
      [] v.t = "arr" -> Lookup(v.x, key)
      [] OTHER -> Undefined

Digits == <<"0", "1", "2", "3", "4", "5", "6", "7", "8", "9">>

IsDigit(c) == \E d \in 1..Len(Digits) : Digits[d] = c

DigitValue(c) == (CHOOSE d \in 1..Len(Digits) : Digits[d] = c) - 1

\* key is the canonical decimal numeral of a natural number: digits only,
\* no leading zero
IsNumeral(key) ==
    /\ Len(key) > 0
    /\ \A i \in 1..Len(key) : IsDigit(key[i])
    /\ Len(key) > 1 => key[1] # "0"

\* the numeral a denotes a smaller number than the numeral b
NumeralLess(a, b) ==
    \/ Len(a) < Len(b)
    \/ /\ Len(a) = Len(b)
       /\ \E i \in 1..Len(a) :
             /\ \A j \in 1..(i - 1) : a[j] = b[j]
             /\ DigitValue(a[i]) < DigitValue(b[i])

\* 2^32 - 2, the largest array index
MaxIndexNumeral == <<"4", "2", "9", "4", "9", "6", "7", "2", "9", "4">>

\* the keys that are array indices: the canonical numerals of 0 .. 2^32 - 2
IsIndex(key) == IsNumeral(key) /\ ~NumeralLess(MaxIndexNumeral, key)

\* the members of an object once key is set to val: a key it has keeps its
\* place; a new index key goes after the smaller index keys and before
\* every other key; any other new key goes last (OrdinaryOwnPropertyKeys)
Store(ms, key, val) ==
    IF \E i \in 1..Len(ms) : ms[i].k = key
    THEN LET i == CHOOSE j \in 1..Len(ms) : ms[j].k = key IN
         SubSeq(ms, 1, i - 1) \o <<Member(key, val)>> \o SubSeq(ms, i + 1, Len(ms))
    ELSE IF IsIndex(key)
    THEN LET before == {j \in 1..Len(ms) :
                           IsIndex(ms[j].k) /\ NumeralLess(ms[j].k, key)}
             n == Cardinality(before)
         IN  SubSeq(ms, 1, n) \o <<Member(key, val)>> \o SubSeq(ms, n + 1, Len(ms))
    ELSE Append(ms, Member(key, val))

\* v.key = val, for a v that CanWrite and the key the controller writes (a
\* named property, no array index)
SetProp(v, key, val) ==
    IF v.t = "obj" THEN [v EXCEPT !.m = Store(v.m, key, val)]
    ELSE [v EXCEPT !.x = Store(v.x, key, val)]

(***************************************************************************)
(* JSON text is a sequence of lexical tokens: the punctuation, the          *)
(* literals, a number, a string, or a piece of text that is no JSON token.  *)
(***************************************************************************)
Tok(k) == [k |-> k, s |-> <<>>, n |-> 0]

TStr(s) == [k |-> "str", s |-> s, n |-> 0]

TNum(n) == [k |-> "num", s |-> <<>>, n |-> n]

RECURSIVE StringifyMembers(_, _)
RECURSIVE StringifyItems(_, _)
RECURSIVE JSONstringify(_)

\* JSON.stringify(v) for the values above
JSONstringify(v) ==
    CASE v.t = "null" -> <<Tok("null")>>
      [] v.t = "bool" -> <<Tok(IF v.b THEN "true" ELSE "false")>>
      [] v.t = "num" -> <<TNum(v.n)>>
      [] v.t = "str" -> <<TStr(v.s)>>
      [] v.t = "obj" -> <<Tok("{")>> \o StringifyMembers(v.m, 1) \o <<Tok("}")>>
      [] v.t = "arr" -> <<Tok("[")>> \o StringifyItems(v.m, 1) \o <<Tok("]")>>

StringifyMembers(ms, i) ==
    IF i > Len(ms) THEN <<>>
    ELSE (IF i > 1 THEN <<Tok(",")>> ELSE <<>>)
         \o <<TStr(ms[i].k), Tok(":")>> \o JSONstringify(ms[i].v)
         \o StringifyMembers(ms, i + 1)

StringifyItems(items, i) ==
    IF i > Len(items) THEN <<>>
    ELSE (IF i > 1 THEN <<Tok(",")>> ELSE <<>>)
         \o JSONstringify(items[i]) \o StringifyItems(items, i + 1)

\* result of parsing a value that starts at token i: ok, the value, and the
\* index of the token after it
PR(ok, v, i) == [ok |-> ok, v |-> v, i |-> i]

ParseFail == PR(FALSE, Undefined, 0)

At(toks, i) == IF i <= Len(toks) THEN toks[i] ELSE Tok("<eof>")

RECURSIVE ParseValue(_, _)
RECURSIVE ParseMembers(_, _, _)
RECURSIVE ParseItems(_, _, _)

ParseValue(toks, i) ==
    LET tk == At(toks, i) IN
    CASE tk.k = "null" -> PR(TRUE, JNull, i + 1)
      [] tk.k = "true" -> PR(TRUE, JBool(TRUE), i + 1)
      [] tk.k = "false" -> PR(TRUE, JBool(FALSE), i + 1)
      [] tk.k = "num" -> PR(TRUE, JNum(tk.n), i + 1)
      [] tk.k = "str" -> PR(TRUE, JStr(tk.s), i + 1)
      [] tk.k = "{" ->
            IF At(toks, i + 1).k = "}" THEN PR(TRUE, JObj(<<>>), i + 2)
            ELSE ParseMembers(toks, i + 1, <<>>)
      [] tk.k = "[" ->
            IF At(toks, i + 1).k = "]" THEN PR(TRUE, JArr(<<>>, <<>>), i + 2)
            ELSE ParseItems(toks, i + 1, <<>>)
      [] OTHER -> ParseFail

\* members of an object from token i on; a repeated key keeps its first
\* position and takes the last value, index keys come first
ParseMembers(toks, i, acc) ==
    IF At(toks, i).k # "str" \/ At(toks, i + 1).k # ":" THEN ParseFail
    ELSE LET r == ParseValue(toks, i + 2) IN
         IF ~r.ok THEN ParseFail
         ELSE LET acc2 == Store(acc, At(toks, i).s, r.v) IN
              CASE At(toks, r.i).k = "}" -> PR(TRUE, JObj(acc2), r.i + 1)
                [] At(toks, r.i).k = "," -> ParseMembers(toks, r.i + 1, acc2)
                [] OTHER -> ParseFail

ParseItems(toks, i, acc) ==
    LET r == ParseValue(toks, i) IN
    IF ~r.ok THEN ParseFail
    ELSE CASE At(toks, r.i).k = "]" -> PR(TRUE, JArr(Append(acc, r.v), <<>>), r.i + 1)
           [] At(toks, r.i).k = "," -> ParseItems(toks, r.i + 1, Append(acc, r.v))
           [] OTHER -> ParseFail

\* JSON.parse(text): [ok |-> FALSE] is the SyntaxError
JSONparse(toks) ==
    LET r == ParseValue(toks, 1) IN
    IF r.ok /\ r.i = Len(toks) + 1 THEN [ok |-> TRUE, v |-> r.v]
    ELSE [ok |-> FALSE, v |-> Undefined]

(***************************************************************************)
(* Preferences (part_000, App.loadPreferences .. App.savePreferences).      *)
(***************************************************************************)
DefaultRefreshInterval == 30000

getDefaultPreferences ==
    JObj(<<Member(autoRefreshKey, JBool(FALSE)),
           Member(refreshIntervalKey, JNum(DefaultRefreshInterval)),
           Member(showBatteryKey, JBool(TRUE)),
           Member(showNetworkKey, JBool(TRUE)),
           Member(showUptimeKey, JBool(TRUE))>>)

\* a localStorage slot: getItem gives null when the key is absent
Slot(present, text) == [present |-> present, text |-> text]

AbsentSlot == Slot(FALSE, <<>>)

\* `if (saved)`: null and the empty string are falsy
SavedTruthy(slot) == slot.present /\ slot.text # <<>>

\* outcome of a synchronous call: threw says an exception escaped it
Outcome(threw, val) == [threw |-> threw, val |-> val]

\* App.loadPreferences: val is the value left in state.preferences
loadPreferences(slot) ==
    IF SavedTruthy(slot)
    THEN IF JSONparse(slot.text).ok
         THEN Outcome(FALSE, JSONparse(slot.text).v)
         ELSE Outcome(FALSE, getDefaultPreferences)
    ELSE Outcome(FALSE, getDefaultPreferences)

savePreferences_Empty(prefs) == Slot(TRUE, JSONstringify(JObj(<<>>)))

\* App.savePreferences: the slot localStorage holds afterwards
savePreferences(prefs) == Slot(TRUE, JSONstringify(prefs))

(***************************************************************************)
(* DeviceInfo, the queries (device-info.js).                                *)
(*                                                                          *)
(* A field a provider leaves out (undefined) is the empty string, which     *)
(* `||` treats the same way.  ASCII tags of the source's literals:          *)
(*   "zh:iOS device"   getFallbackDeviceInfo.model                          *)
(*   "zh:unknown"      getFallbackDeviceInfo.osVersion, typeMap.unknown and *)
(*                     the default of getNetworkTypeText                    *)
(*   "zh:unknown device" / "zh:unknown platform" / "zh:unknown system" /    *)
(*   "zh:unknown version" / "zh:unknown vendor"   defaults of getDeviceInfo *)
(*   "zh:unavailable"  getFallbackNetworkStatus.typeText                    *)
(*   "zh:not connected" / "zh:cellular" / "zh:no network"                   *)
(*                     getNetworkTypeText                                   *)
(*   "zh:just started" getFallbackInfo.uptime                               *)
(*   "zh:days" "zh:hours" "zh:minutes" "zh:seconds"   units of getUptime    *)
(***************************************************************************)
Absent == -1    \* a number that is missing (null or undefined)

Or(s, d) == IF s # "" THEN s ELSE d

\* DeviceInfo.getPlugins() is null when window.Capacitor.Plugins is missing
HasDevice(p) == p.cap /\ p.dev # "absent"

HasNetwork(p) == p.cap /\ p.net # "absent"

getFallbackDeviceInfo ==
    [model |-> "zh:iOS device", platform |-> "ios", operatingSystem |-> "iOS",
     osVersion |-> "zh:unknown", manufacturer |-> "Apple", isVirtual |-> FALSE,
     battery |-> [level |-> LevelDenom, charging |-> FALSE]]

getFallbackNetworkStatus ==
    [connected |-> FALSE, connectionType |-> "none", typeText |-> "zh:unavailable"]

\* the record getDeviceInfo builds from what getInfo and getBatteryInfo gave
DeviceRecord(info, bat) ==
    [model |-> Or(info.model, "zh:unknown device"),
     platform |-> Or(info.platform, "zh:unknown platform"),
     operatingSystem |-> Or(info.operatingSystem, "zh:unknown system"),
     osVersion |-> Or(info.osVersion, "zh:unknown version"),
     manufacturer |-> Or(info.manufacturer, "zh:unknown vendor"),
     isVirtual |-> info.isVirtual,
     battery |-> [level |-> IF bat.batteryLevel \in {Absent, 0}
                            THEN LevelDenom ELSE bat.batteryLevel,
                  charging |-> bat.isCharging]]

\* settlement of a promise
Resolve(v) == [kind |-> "resolve", val |-> v]

Reject == [kind |-> "reject", val |-> [error |-> TRUE]]

\* getDeviceInfo awaits Device.getInfo before it calls
\* Device.getBatteryInfo: the second request is made in a later turn, on the
\* plugin object taken when getDeviceInfo was called.  Each request is
\* answered from the state the providers are in when it is made.
\* Device.getInfo is awaited and will resolve
InfoAnswers(p) == HasDevice(p) /\ p.dev # "infoFails"

\* what getDeviceInfo does once getInfo has resolved with info: it asks
\* getBatteryInfo of the providers q
getBatteryInfo_NoCatch(info, q) ==
    IF q.dev = "batteryFails" THEN Reject
    ELSE Resolve(DeviceRecord(info, q.bat))

getBatteryInfo(info, q) ==
    IF q.dev = "batteryFails" THEN Resolve(getFallbackDeviceInfo)
    ELSE Resolve(DeviceRecord(info, q.bat))

getDeviceInfo_NoCatch(p, q) ==
    IF ~HasDevice(p) THEN Resolve(getFallbackDeviceInfo)
    ELSE IF p.dev = "infoFails" THEN Reject
    ELSE getBatteryInfo_NoCatch(p.info, q)

\* DeviceInfo.getDeviceInfo called against the providers p, which are q
\* when getInfo has answered
getDeviceInfo(p, q) ==
    IF ~HasDevice(p) THEN Resolve(getFallbackDeviceInfo)
    ELSE IF p.dev = "infoFails" THEN Resolve(getFallbackDeviceInfo)
    ELSE getBatteryInfo(p.info, q)

\* the names every object literal inherits from Object.prototype: typeMap
\* has them too, and their values (functions, and the prototype object for
\* __proto__) are truthy
InheritedNames ==
    {"constructor", "toString", "toLocaleString", "valueOf", "hasOwnProperty",
     "isPrototypeOf", "propertyIsEnumerable", "__proto__", "__defineGetter__",
     "__defineSetter__", "__lookupGetter__", "__lookupSetter__"}

\* what typeMap[name] is for an inherited name: no text; the tag stands for
\* the function or object found on Object.prototype
InheritedValue(name) ==
    CASE name = "constructor" -> "js:Object"
      [] name = "toString" -> "js:Object.prototype.toString"
      [] name = "toLocaleString" -> "js:Object.prototype.toLocaleString"
      [] name = "valueOf" -> "js:Object.prototype.valueOf"
      [] name = "hasOwnProperty" -> "js:Object.prototype.hasOwnProperty"
      [] name = "isPrototypeOf" -> "js:Object.prototype.isPrototypeOf"
      [] name = "propertyIsEnumerable" -> "js:Object.prototype.propertyIsEnumerable"
      [] name = "__proto__" -> "js:Object.prototype"
      [] name = "__defineGetter__" -> "js:Object.prototype.__defineGetter__"
      [] name = "__defineSetter__" -> "js:Object.prototype.__defineSetter__"
      [] name = "__lookupGetter__" -> "js:Object.prototype.__lookupGetter__"
      [] name = "__lookupSetter__" -> "js:Object.prototype.__lookupSetter__"

getNetworkTypeText(type, connected) ==
    IF ~connected THEN "zh:not connected"
    ELSE CASE type = "wifi" -> "Wi-Fi"
           [] type = "cellular" -> "zh:cellular"
           [] type = "none" -> "zh:no network"
           [] type = "unknown" -> "zh:unknown"
           [] type \in InheritedNames -> InheritedValue(type)
           [] OTHER -> "zh:unknown"

\* the object getNetworkStatus builds from what Network.getStatus gave
StatusRecord(status) ==
    [connected |-> status.connected,
     connectionType |-> Or(status.connectionType, "unknown"),
     typeText |-> getNetworkTypeText(status.connectionType, status.connected)]

\* DeviceInfo.getNetworkStatus against the providers p
getNetworkStatus(p) ==
    IF ~HasNetwork(p) THEN Resolve(getFallbackNetworkStatus)
    ELSE IF p.net = "fails" THEN Resolve(getFallbackNetworkStatus)
    ELSE Resolve(StatusRecord(p.status))

\* the object addNetworkListener hands to the callback for a change event
ListenerStatus(status) ==
    [connected |-> status.connected,
     connectionType |-> status.connectionType,
     typeText |-> getNetworkTypeText(status.connectionType, status.connected)]

getAppVersion == "1.0.0"

Unit(n, u) == [n |-> n, u |-> u]

\* DeviceInfo.getUptime: start is localStorage['appStartTime'], t is
\* Date.now(); the text is the sequence of its number/unit pairs
getUptime_LateMinutes(start, t) ==
    LET startTime == IF start # Absent THEN start ELSE t
        elapsed == t - startTime
        seconds == elapsed \div 1000
        minutes == seconds \div 60
        hours == minutes \div 60
        days == hours \div 24
    IN  IF days > 0 THEN <<Unit(days, "zh:days"), Unit(hours % 24, "zh:hours")>>
        ELSE IF hours > 0
             THEN <<Unit(hours, "zh:hours"), Unit(minutes % 60, "zh:minutes")>>
        ELSE IF minutes > 1
             THEN <<Unit(minutes, "zh:minutes"), Unit(seconds % 60, "zh:seconds")>>
        ELSE <<Unit(seconds, "zh:seconds")>>

getUptime(start, t) ==
    LET startTime == IF start # Absent THEN start ELSE t
        elapsed == t - startTime
        seconds == elapsed \div 1000
        minutes == seconds \div 60
        hours == minutes \div 60
        days == hours \div 24
    IN  IF days > 0 THEN <<Unit(days, "zh:days"), Unit(hours % 24, "zh:hours")>>
        ELSE IF hours > 0
             THEN <<Unit(hours, "zh:hours"), Unit(minutes % 60, "zh:minutes")>>
        ELSE IF minutes > 0
             THEN <<Unit(minutes, "zh:minutes"), Unit(seconds % 60, "zh:seconds")>>
        ELSE <<Unit(seconds, "zh:seconds")>>

getFallbackInfo ==
    [model |-> getFallbackDeviceInfo.model,
     platform |-> getFallbackDeviceInfo.platform,
     operatingSystem |-> getFallbackDeviceInfo.operatingSystem,
     osVersion |-> getFallbackDeviceInfo.osVersion,
     manufacturer |-> getFallbackDeviceInfo.manufacturer,
     isVirtual |-> getFallbackDeviceInfo.isVirtual,
     battery |-> getFallbackDeviceInfo.battery,
     network |-> getFallbackNetworkStatus,
     appVersion |-> "1.0.0",
     uptime |-> <<Unit(0, "zh:just started")>>]

\* the snapshot getAllInfo assembles from the two settled queries
Snapshot(d, n, start, t) ==
    [model |-> d.model, platform |-> d.platform,
     operatingSystem |-> d.operatingSystem, osVersion |-> d.osVersion,
     manufacturer |-> d.manufacturer, isVirtual |-> d.isVirtual,
     battery |-> d.battery, network |-> n,
     appVersion |-> getAppVersion, uptime |-> getUptime(start, t)]

\* DeviceInfo.getAllInfo, given the settlements dq and nq of getDeviceInfo
\* and getNetworkStatus: Promise.all rejects when either does
getAllInfo(dq, nq, start, t) ==
    IF dq.kind = "resolve" /\ nq.kind = "resolve"
    THEN Resolve(Snapshot(dq.val, nq.val, start, t))
    ELSE Resolve(getFallbackInfo)

\* Math.round(x * 100) for x = k / LevelDenom
RoundPercent(k) == (200 * k + LevelDenom) \div (2 * LevelDenom)

\* DeviceInfo.formatBatteryInfo; battery is the snapshot's battery, with
\* level Absent when info.battery or its level is missing
formatBatteryInfo(battery) ==
    LET level == RoundPercent(IF battery.level \in {Absent, 0}
                              THEN LevelDenom ELSE battery.level)
    IN  [level |-> level,
         charging |-> battery.charging,
         levelClass |-> IF level > 50 THEN "high"
                        ELSE IF level > 20 THEN "medium" ELSE "low"]

(***************************************************************************)
(* The capability providers.  dev: "absent", "infoFails" (Device.getInfo    *)
(* rejects), "batteryFails" (Device.getBatteryInfo rejects) or "ok"; net:   *)
(* "absent", "fails" (every call on Network, and on a handle it gave,       *)
(* rejects) or "ok".  Haptics and LocalNotifications change no state of the *)
(* program whether they are absent, fail or succeed; awaiting them is a     *)
(* point where other handlers run.                                          *)
(***************************************************************************)
MkProv(cap, dev, net, info, bat, status) ==
    [cap |-> cap, dev |-> dev, net |-> net, info |-> info, bat |-> bat,
     status |-> status]

RawInfo(model, platform, os, ver, vendor, virtual) ==
    [model |-> model, platform |-> platform, operatingSystem |-> os,
     osVersion |-> ver, manufacturer |-> vendor, isVirtual |-> virtual]

InfoFull == RawInfo("iPhone15,2", "ios", "ios", "17.4", "Apple", FALSE)

InfoEmpty == RawInfo("", "", "", "", "", FALSE)

RawBattery(level, charging) == [batteryLevel |-> level, isCharging |-> charging]

RawStatus(connected, type) == [connected |-> connected, connectionType |-> type]

\* the providers are there and every query on them rejects
ProvidersFail(p) == p.cap /\ p.dev \in {"infoFails", "batteryFails"} /\ p.net = "fails"

ProvidersOk(p) == HasDevice(p) /\ p.dev = "ok" /\ HasNetwork(p) /\ p.net = "ok"

(***************************************************************************)
(* The document.  The page holds the container #app; whether it also holds  *)
(* a #loading placeholder inside #app before renderUI runs is not fixed by  *)
(* the scripts, so both pages are initial states.                           *)
(*   shell: renderUI has written its template into #app                     *)
(*   loading: "none" (no #loading element), "spinner", or "error" (showError*)
(*            replaced its content by the message and the retry button)     *)
(*   the flags: the element does not carry the class `hidden`               *)
(*   view / netView: the snapshot and the network status last rendered      *)
(***************************************************************************)
NoInfo == [none |-> TRUE]

Page(loading) ==
    [static |-> loading, shell |-> FALSE, loading |-> loading,
     loadingShown |-> loading # "none",
     device |-> FALSE, battery |-> FALSE, network |-> FALSE, app |-> FALSE,
     buttons |-> FALSE, view |-> NoInfo, netView |-> NoInfo]

\* App.renderUI: the template reads preferences.autoRefresh before
\* innerHTML is assigned
renderUI(d, prefs) ==
    IF ~CanRead(prefs) THEN Outcome(TRUE, d)
    ELSE Outcome(FALSE, [Page("spinner") EXCEPT !.shell = TRUE, !.static = d.static])

\* App.showError
showError(d) == IF d.loading # "none" THEN [d EXCEPT !.loading = "error"] ELSE d

\* App.updateUI for a snapshot info; an element looked up by id that does
\* not exist makes `.classList` throw
updateUI(d, info, prefs) ==
    IF d.loading = "none" THEN Outcome(TRUE, d)
    ELSE LET d1 == [d EXCEPT !.loadingShown = FALSE] IN
         IF ~d.shell THEN Outcome(TRUE, d1)
         ELSE LET d2 == [d1 EXCEPT !.device = TRUE, !.buttons = TRUE, !.view = info] IN
              IF ~CanRead(prefs) THEN Outcome(TRUE, d2)
              ELSE LET sb == Truthy(GetProp(prefs, showBatteryKey))
                       sn == Truthy(GetProp(prefs, showNetworkKey))
                   IN  Outcome(FALSE,
                          [d2 EXCEPT !.battery = d2.battery \/ sb,
                                     !.network = d2.network \/ sn,
                                     !.netView = IF sn THEN info.network ELSE @,
                                     !.app = TRUE])

\* App.loadDeviceInfo once getAllInfo has settled: the snapshot it stores and
\* the document it leaves
loadDeviceInfo_AlwaysError(d, cur, settled, prefs) ==
    [info |-> IF settled.kind = "resolve" THEN settled.val ELSE cur,
     dom |-> showError(IF settled.kind = "resolve"
                       THEN updateUI(d, settled.val, prefs).val ELSE d),
     failed |-> TRUE]

loadDeviceInfo(d, cur, settled, prefs) ==
    IF settled.kind = "resolve"
    THEN LET u == updateUI(d, settled.val, prefs) IN
         [info |-> settled.val, dom |-> IF u.threw THEN showError(u.val) ELSE u.val,
          failed |-> u.threw]
    ELSE [info |-> cur, dom |-> showError(d), failed |-> TRUE]

(***************************************************************************)
(* DeviceInfo.cachedInfo is written by getAllInfo and read nowhere; it is    *)
(* left out of the state.                                                   *)
(*                                                                          *)
(* The interval timer (App.startAutoRefresh, App.stopAutoRefresh).          *)
(***************************************************************************)
TimerState ==
    [ri |-> refreshInterval, ts |-> timers, nt |-> nextTimer, threw |-> FALSE]

\* App.startAutoRefresh: the held timer is cleared, then the argument
\* preferences.refreshInterval is read, which throws a TypeError when
\* preferences is null (the handle keeps the id of the cleared timer), then
\* setInterval is called
startAutoRefresh(t, prefs) ==
    LET kept == IF t.ri # 0 THEN t.ts \ {t.ri} ELSE t.ts IN
    IF ~CanRead(prefs)
    THEN [ri |-> t.ri, ts |-> kept, nt |-> t.nt, threw |-> TRUE]
    ELSE [ri |-> t.nt, ts |-> kept \cup {t.nt}, nt |-> t.nt + 1, threw |-> FALSE]

stopAutoRefresh(t) ==
    IF t.ri # 0 THEN [ri |-> 0, ts |-> t.ts \ {t.ri}, nt |-> t.nt, threw |-> FALSE]
    ELSE t

SetTimers(t) ==
    /\ refreshInterval' = t.ri
    /\ timers' = t.ts
    /\ nextTimer' = t.nt

(***************************************************************************)
(* Inputs of the controller specification.                                  *)
(***************************************************************************)
MainBattery == RawBattery(175, TRUE)

StatusWifi == RawStatus(TRUE, "wifi")

StatusOffline == RawStatus(FALSE, "none")

MainStatuses == {StatusWifi, StatusOffline}

ProvAbsent == MkProv(FALSE, "absent", "absent", InfoFull, MainBattery, StatusWifi)

ProvFailing == MkProv(TRUE, "infoFails", "fails", InfoFull, MainBattery, StatusWifi)

ProvWorking(st) == MkProv(TRUE, "ok", "ok", InfoFull, MainBattery, st)

MainProvs == {ProvAbsent, ProvFailing} \cup {ProvWorking(st) : st \in MainStatuses}

PrefsText(auto, interval, sb, sn, su) ==
    JSONstringify(JObj(<<Member(autoRefreshKey, JBool(auto)),
                         Member(refreshIntervalKey, JNum(interval)),
                         Member(showBatteryKey, JBool(sb)),
                         Member(showNetworkKey, JBool(sn)),
                         Member(showUptimeKey, JBool(su))>>))

\* stored texts the controller can meet under 'appPreferences': text it
\* wrote itself, truncated text, text that is no JSON, and JSON that is no
\* object
TruncatedText == SubSeq(PrefsText(TRUE, 30000, TRUE, TRUE, TRUE), 1, 6)

GarbageText == <<Tok("[object"), Tok("Object]")>>

NullText == <<Tok("null")>>

EmptyArrayText == <<Tok("["), Tok("]")>>

NumberText == <<TNum(42)>>

\* {"b":1,"100":2,"5":3}: an object whose index keys are written last and
\* out of order
IndexKeyText ==
    <<Tok("{"), TStr(<<"b">>), Tok(":"), TNum(1), Tok(","),
      TStr(<<"1", "0", "0">>), Tok(":"), TNum(2), Tok(","),
      TStr(<<"5">>), Tok(":"), TNum(3), Tok("}")>>

MainSlots ==
    {AbsentSlot, Slot(TRUE, GarbageText), Slot(TRUE, NullText),
     Slot(TRUE, PrefsText(TRUE, 5000, FALSE, TRUE, TRUE))}

\* the same, and text that parses to a JSON array
StoredSlots == MainSlots \cup {Slot(TRUE, EmptyArrayText)}

\* a loadDeviceInfo call in flight: who made it, where it stands ("haptic":
\* refreshInfo awaits hapticFeedback; "info": getAllInfo has asked
\* Network.getStatus and Device.getInfo, and getInfo will resolve with
\* dq.val; "query": every request getAllInfo makes is out), what the
\* providers answer, whether both answered, and whether a call that asked
\* the providers after it has settled already (passed), whatever the two
\* were answered.  The calls that have asked are kept in the order they
\* asked.
NoQuery == [kind |-> "none", val |-> NoInfo]

Pending(info) == [kind |-> "pending", val |-> info]

Fetch(origin, stage, dq, nq, ok) ==
    [origin |-> origin, stage |-> stage, dq |-> dq, nq |-> nq, ok |-> ok,
     passed |-> FALSE]

\* getAllInfo is called: Network.getStatus and Device.getInfo are asked
\* and answer from the state the providers are in
Asked(origin) ==
    IF InfoAnswers(prov)
    THEN Fetch(origin, "info", Pending(prov.info), getNetworkStatus(prov),
               HasNetwork(prov) /\ prov.net = "ok")
    ELSE Fetch(origin, "query", getDeviceInfo(prov, prov), getNetworkStatus(prov), FALSE)

\* getInfo has answered fetch f: Device.getBatteryInfo is asked and answers
\* from the state the providers are in now
BatteryAsked(f) ==
    [f EXCEPT !.stage = "query",
              !.dq = getBatteryInfo(f.dq.val, prov),
              !.ok = f.ok /\ prov.dev # "batteryFails"]

Without(seq, i) == SubSeq(seq, 1, i - 1) \o SubSeq(seq, i + 1, Len(seq))

\* the calls fs, which asked the providers before a call that settles now:
\* they have been passed (a refreshInfo that still awaits hapticFeedback has
\* not asked)
RECURSIVE Passed(_)

Passed(fs) ==
    IF fs = <<>> THEN <<>>
    ELSE <<[Head(fs) EXCEPT !.passed = @ \/ Head(fs).stage # "haptic"]>>
         \o Passed(Tail(fs))

\* the calls still in flight once call i has settled
Settled(fs, i) == Passed(SubSeq(fs, 1, i - 1)) \o SubSeq(fs, i + 1, Len(fs))

\* hist: the operation that made the last step when a property speaks of it
\* ("other" otherwise), whether it threw, whether the snapshot it stored was
\* answered by both providers, whether the call that stored it was made
\* before a call that had settled already, whether the providers were
\* failing all the time the last App.init ran, and whether destroy() was
\* the last call made from outside (timer ticks, provider events and the
\* settlements of pending operations are not calls from outside)
H(op, threw) ==
    [op |-> op, threw |-> threw, initFailing |-> hist.initFailing,
     fromProviders |-> FALSE, overtaken |-> FALSE, destroyed |-> hist.destroyed]

\* hist after a call from outside other than destroy()
Call(op, threw) == [H(op, threw) EXCEPT !.destroyed = FALSE]

ClockVars == <<now, advances>>

\* where the App.init calls under way stand: starting await
\* DeviceInfo.init, resuming have had their loadDeviceInfo settle and go on
\* after `await this.loadDeviceInfo()` one promise job later
InitPc(starting, resuming) == [starting |-> starting, resuming |-> resuming]

\* a call from outside, or an event of the environment: a task of the event
\* loop, which starts when no promise job is waiting (the continuation of
\* an init whose loadDeviceInfo has settled is one)
Event ==
    /\ events < MaxEvents
    /\ initPc.resuming = 0
    /\ events' = events + 1

Boot(slots) ==
    /\ lsPrefs \in slots
    /\ lsStart = Absent
    /\ now = 1000000
    /\ preferences = JObj(<<>>)
    /\ deviceInfo = NoInfo
    /\ refreshInterval = 0
    /\ networkListener = 0
    /\ timers = {}
    /\ nextTimer = 1
    /\ subs = {}
    /\ nextSub = 1
    /\ pendingAdd = 0
    /\ pendingRemove = <<>>
    /\ prov \in MainProvs
    /\ dom \in {Page("none"), Page("spinner")}
    /\ initPc = InitPc(0, 0)
    /\ fetches = <<>>
    /\ hist = [op |-> "other", threw |-> FALSE, initFailing |-> FALSE,
               fromProviders |-> FALSE, overtaken |-> FALSE, destroyed |-> FALSE]
    /\ advances = 0
    /\ events = 0

Init == Boot(MainSlots)

\* addNetworkListener up to `await plugins.Network.addListener(...)`: the
\* number of requests then out
addNetworkListener(p, pending) == IF HasNetwork(p) THEN pending + 1 ELSE pending

\* removeNetworkListener up to `await this.networkListener.remove()`: the
\* remove() calls then out
removeNetworkListener_NoGuard(listener, pending) == Append(pending, listener)

removeNetworkListener(listener, pending) ==
    IF listener # 0 THEN Append(pending, listener) ELSE pending

(***************************************************************************)
(* App.init has no guard against being called again: any number of calls    *)
(* can be under way.  initPc counts those that await DeviceInfo.init and    *)
(* those that resume after loadDeviceInfo; those that await loadDeviceInfo  *)
(* are the fetches of origin "init".  init sets                             *)
(* localStorage['appStartTime'] first, so it is absent exactly as long as   *)
(* init was never called.                                                   *)
(***************************************************************************)
InitLoading == \E i \in 1..Len(fetches) : fetches[i].origin = "init"

InitUnderWay == initPc.starting > 0 \/ initPc.resuming > 0 \/ InitLoading

InitNeverCalled == lsStart = Absent

InitDone == lsStart # Absent /\ ~InitUnderWay

(***************************************************************************)
(* App.init, up to `await DeviceInfo.init()`.                               *)
(***************************************************************************)
InitStart ==
    /\ Event
    /\ lsStart' = IF lsStart = Absent THEN now ELSE lsStart
    /\ LET r == loadPreferences(lsPrefs) IN
       /\ preferences' = IF r.threw THEN preferences ELSE r.val
       /\ initPc' = IF r.threw THEN initPc
                    ELSE [initPc EXCEPT !.starting = @ + 1]
       /\ dom' = IF r.threw THEN showError(dom) ELSE dom
       /\ hist' = [op |-> IF r.threw THEN "initFail" ELSE "other",
                   threw |-> r.threw,
                   initFailing |-> /\ ProvidersFail(prov)
                                   /\ InitUnderWay => hist.initFailing,
                   fromProviders |-> FALSE, overtaken |-> FALSE,
                   destroyed |-> FALSE]
    /\ UNCHANGED <<lsPrefs, deviceInfo, refreshInterval, networkListener,
                   timers, nextTimer, subs, nextSub, pendingAdd, pendingRemove,
                   prov, fetches, ClockVars>>

(***************************************************************************)
(* App.init from renderUI to `await this.loadDeviceInfo()`; a throw of      *)
(* renderUI is caught by init, which calls showError.                       *)
(***************************************************************************)
InitRender ==
    /\ UNCHANGED events
    /\ initPc.starting > 0
    /\ initPc' = [initPc EXCEPT !.starting = @ - 1]
    /\ LET r == renderUI(dom, preferences) IN
       IF r.threw
       THEN /\ dom' = showError(dom)
            /\ hist' = H("initFail", FALSE)
            /\ UNCHANGED fetches
       ELSE /\ dom' = r.val
            /\ fetches' = Append(fetches, Asked("init"))
            /\ hist' = H("other", FALSE)
    /\ UNCHANGED <<lsPrefs, lsStart, preferences, deviceInfo, refreshInterval,
                   networkListener, timers, nextTimer, subs, nextSub,
                   pendingAdd, pendingRemove, prov, ClockVars>>

\* what landing fetch f does to state.deviceInfo and the document
Landed_KeepNewer(f) ==
    IF f.passed THEN [info |-> deviceInfo, dom |-> dom, failed |-> FALSE]
    ELSE loadDeviceInfo(dom, deviceInfo, getAllInfo(f.dq, f.nq, lsStart, now), preferences)

Landed(f) ==
    loadDeviceInfo(dom, deviceInfo, getAllInfo(f.dq, f.nq, lsStart, now), preferences)

\* Device.getInfo answers a fetch: getDeviceInfo goes on to getBatteryInfo
InfoAnswered(i) ==
    /\ UNCHANGED events
    /\ fetches[i].stage = "info"
    /\ fetches' = [fetches EXCEPT ![i] = BatteryAsked(fetches[i])]
    /\ hist' = H("other", FALSE)
    /\ UNCHANGED <<lsPrefs, lsStart, preferences, deviceInfo, refreshInterval,
                   networkListener, timers, nextTimer, subs, nextSub, pendingAdd,
                   pendingRemove, prov, dom, initPc, ClockVars>>

(***************************************************************************)
(* The loadDeviceInfo call of App.init settles: the snapshot is stored and  *)
(* shown (part_000:170-171).  init goes on one promise job later; jobs      *)
(* that were queued before (snapshots and requests that settled in the      *)
(* same turn) run in between.                                               *)
(***************************************************************************)
InitLanded(i) ==
    /\ UNCHANGED events
    /\ fetches[i].origin = "init" /\ fetches[i].stage = "query"
    /\ LET r == Landed(fetches[i]) IN
       /\ deviceInfo' = r.info
       /\ dom' = r.dom
       /\ hist' = [H("initLanded", FALSE) EXCEPT
                      !.fromProviders = fetches[i].ok,
                      !.overtaken = fetches[i].passed]
    /\ fetches' = Settled(fetches, i)
    /\ initPc' = [initPc EXCEPT !.resuming = @ + 1]
    /\ UNCHANGED <<lsPrefs, lsStart, preferences, refreshInterval,
                   networkListener, timers, nextTimer, subs, nextSub, pendingAdd,
                   pendingRemove, prov, ClockVars>>

(***************************************************************************)
(* App.init from `await this.loadDeviceInfo()` to its end (part_000:42-47): *)
(* setupNetworkListener runs up to its await (the request to Network is     *)
(* out), then preferences.autoRefresh is read (a TypeError on null, which   *)
(* init catches and reports with showError) and startAutoRefresh is called  *)
(* if the preference asks for it.                                           *)
(***************************************************************************)
InitLoaded ==
    /\ UNCHANGED events
    /\ initPc.resuming > 0
    /\ initPc' = [initPc EXCEPT !.resuming = @ - 1]
    /\ pendingAdd' = addNetworkListener(prov, pendingAdd)
    /\ IF ~CanRead(preferences)
       THEN /\ dom' = showError(dom)
            /\ UNCHANGED <<refreshInterval, timers, nextTimer>>
            /\ hist' = H("initFail", FALSE)
       ELSE /\ dom' = dom
            /\ SetTimers(IF Truthy(GetProp(preferences, autoRefreshKey))
                         THEN startAutoRefresh(TimerState, preferences)
                         ELSE TimerState)
            /\ hist' = H("initLoaded", FALSE)
    /\ UNCHANGED <<lsPrefs, lsStart, preferences, deviceInfo, networkListener,
                   subs, nextSub, pendingRemove, prov, fetches, ClockVars>>

(***************************************************************************)
(* App.refreshInfo: the call, the settlement of hapticFeedback (getAllInfo  *)
(* is called), the settlement of loadDeviceInfo.                            *)
(***************************************************************************)
RefreshInfo ==
    /\ Event
    /\ fetches' = Append(fetches, Fetch("refresh", "haptic", NoQuery, NoQuery, FALSE))
    /\ hist' = Call("other", FALSE)
    /\ UNCHANGED <<lsPrefs, lsStart, preferences, deviceInfo, refreshInterval,
                   networkListener, timers, nextTimer, subs, nextSub, pendingAdd,
                   pendingRemove, prov, dom, initPc, ClockVars>>

RefreshQuery(i) ==
    /\ UNCHANGED events
    /\ fetches[i].stage = "haptic"
    /\ fetches' = Append(Without(fetches, i), Asked("refresh"))
    /\ hist' = H("other", FALSE)
    /\ UNCHANGED <<lsPrefs, lsStart, preferences, deviceInfo, refreshInterval,
                   networkListener, timers, nextTimer, subs, nextSub, pendingAdd,
                   pendingRemove, prov, dom, initPc, ClockVars>>

\* settlement of the loadDeviceInfo of refreshInfo or of a timer tick
Loaded(i) ==
    /\ UNCHANGED events
    /\ fetches[i].origin \in {"refresh", "tick"} /\ fetches[i].stage = "query"
    /\ LET r == Landed(fetches[i]) IN
       /\ deviceInfo' = r.info
       /\ dom' = r.dom
       /\ hist' = [H(IF fetches[i].origin = "refresh" THEN "refreshLoaded"
                     ELSE "tickLoaded", FALSE)
                   EXCEPT !.fromProviders = fetches[i].ok,
                          !.overtaken = fetches[i].passed]
    /\ fetches' = Settled(fetches, i)
    /\ UNCHANGED <<lsPrefs, lsStart, preferences, refreshInterval,
                   networkListener, timers, nextTimer, subs, nextSub, pendingAdd,
                   pendingRemove, prov, initPc, ClockVars>>

\* the interval timer id fires: its callback calls loadDeviceInfo
TimerTick(id) ==
    /\ Event
    /\ id \in timers
    /\ fetches' = Append(fetches, Asked("tick"))
    /\ hist' = H("other", FALSE)
    /\ UNCHANGED <<lsPrefs, lsStart, preferences, deviceInfo, refreshInterval,
                   networkListener, timers, nextTimer, subs, nextSub, pendingAdd,
                   pendingRemove, prov, dom, initPc, ClockVars>>

(***************************************************************************)
(* App.toggleAutoRefresh.  Reading or writing preferences.autoRefresh       *)
(* throws when preferences is not an object; nothing has changed then.      *)
(***************************************************************************)
Toggled(prefs) ==
    SetProp(prefs, autoRefreshKey, JBool(~Truthy(GetProp(prefs, autoRefreshKey))))

ToggleAutoRefresh ==
    /\ Event
    /\ IF ~CanWrite(preferences)
       THEN /\ hist' = Call("toggleAutoRefresh", TRUE)
            /\ UNCHANGED <<lsPrefs, lsStart, preferences, deviceInfo,
                           refreshInterval, networkListener, timers, nextTimer,
                           subs, nextSub, pendingAdd, pendingRemove, prov, dom,
                           initPc, fetches, ClockVars>>
       ELSE /\ preferences' = Toggled(preferences)
            /\ lsPrefs' = savePreferences(Toggled(preferences))
            /\ SetTimers(IF Truthy(GetProp(Toggled(preferences), autoRefreshKey))
                         THEN startAutoRefresh(TimerState, Toggled(preferences))
                         ELSE stopAutoRefresh(TimerState))
            /\ hist' = Call("toggleAutoRefresh", FALSE)
            /\ UNCHANGED <<lsStart, deviceInfo, networkListener, subs, nextSub,
                           pendingAdd, pendingRemove, prov, dom, initPc, fetches,
                           ClockVars>>

StartAutoRefresh ==
    /\ Event
    /\ SetTimers(startAutoRefresh(TimerState, preferences))
    /\ hist' = Call("startAutoRefresh", startAutoRefresh(TimerState, preferences).threw)
    /\ UNCHANGED <<lsPrefs, lsStart, preferences, deviceInfo, networkListener,
                   subs, nextSub, pendingAdd, pendingRemove, prov, dom, initPc,
                   fetches, ClockVars>>

StopAutoRefresh ==
    /\ Event
    /\ SetTimers(stopAutoRefresh(TimerState))
    /\ hist' = Call("other", FALSE)
    /\ UNCHANGED <<lsPrefs, lsStart, preferences, deviceInfo, networkListener,
                   subs, nextSub, pendingAdd, pendingRemove, prov, dom, initPc,
                   fetches, ClockVars>>

(***************************************************************************)
(* The network-change subscription (DeviceInfo.addNetworkListener,          *)
(* DeviceInfo.removeNetworkListener, App.setupNetworkListener).  Both are   *)
(* async: the call runs up to its await, the rest runs when the provider    *)
(* settles the request.                                                     *)
(***************************************************************************)
SetupNetworkListener ==
    /\ Event
    /\ pendingAdd' = addNetworkListener(prov, pendingAdd)
    /\ hist' = Call("other", FALSE)
    /\ UNCHANGED <<lsPrefs, lsStart, preferences, deviceInfo, refreshInterval,
                   networkListener, timers, nextTimer, subs, nextSub,
                   pendingRemove, prov, dom, initPc, fetches, ClockVars>>

\* Network settles an addListener request: with a new handle, which
\* addNetworkListener stores, or with a rejection, which it logs
ListenerAdded ==
    /\ UNCHANGED events
    /\ pendingAdd > 0
    /\ pendingAdd' = pendingAdd - 1
    /\ IF HasNetwork(prov) /\ prov.net = "ok"
       THEN /\ subs' = subs \cup {nextSub}
            /\ networkListener' = nextSub
            /\ nextSub' = nextSub + 1
       ELSE UNCHANGED <<subs, networkListener, nextSub>>
    /\ hist' = H("other", FALSE)
    /\ UNCHANGED <<lsPrefs, lsStart, preferences, deviceInfo, refreshInterval,
                   timers, nextTimer, pendingRemove, prov, dom, initPc, fetches,
                   ClockVars>>

RemoveNetworkListener ==
    /\ Event
    /\ pendingRemove' = removeNetworkListener(networkListener, pendingRemove)
    /\ hist' = Call("other", FALSE)
    /\ UNCHANGED <<lsPrefs, lsStart, preferences, deviceInfo, refreshInterval,
                   networkListener, timers, nextTimer, subs, nextSub, pendingAdd,
                   prov, dom, initPc, fetches, ClockVars>>

\* a remove() call settles: the subscription is gone and removeNetworkListener
\* clears the field, or the call rejected and the error is logged
ListenerRemoved(i) ==
    /\ UNCHANGED events
    /\ IF HasNetwork(prov) /\ prov.net = "ok"
       THEN /\ subs' = subs \ {pendingRemove[i]}
            /\ networkListener' = 0
       ELSE UNCHANGED <<subs, networkListener>>
    /\ pendingRemove' = Without(pendingRemove, i)
    /\ hist' = H("other", FALSE)
    /\ UNCHANGED <<lsPrefs, lsStart, preferences, deviceInfo, refreshInterval,
                   timers, nextTimer, nextSub, pendingAdd, prov, dom, initPc,
                   fetches, ClockVars>>

(***************************************************************************)
(* App.destroy: stopAutoRefresh, then removeNetworkListener (not awaited).  *)
(***************************************************************************)
Destroy ==
    /\ Event
    /\ SetTimers(stopAutoRefresh(TimerState))
    /\ pendingRemove' = removeNetworkListener(networkListener, pendingRemove)
    /\ hist' = [H("destroy", FALSE) EXCEPT !.destroyed = TRUE]
    /\ UNCHANGED <<lsPrefs, lsStart, preferences, deviceInfo, networkListener,
                   subs, nextSub, pendingAdd, prov, dom, initPc, fetches,
                   ClockVars>>

(***************************************************************************)
(* The environment: the network changes (Network tells every subscription,  *)
(* whose callback is the one setupNetworkListener passed), and providers    *)
(* come, go, fail and recover.                                              *)
(***************************************************************************)
NetworkChange(st) ==
    /\ Event
    /\ HasNetwork(prov) /\ prov.net = "ok"
    /\ st # prov.status
    /\ prov' = [prov EXCEPT !.status = st]
    /\ IF subs # {} /\ deviceInfo # NoInfo
       THEN /\ deviceInfo' = [deviceInfo EXCEPT !.network = ListenerStatus(st)]
            /\ dom' = IF dom.shell /\ dom.network
                      THEN [dom EXCEPT !.netView = ListenerStatus(st)] ELSE dom
       ELSE UNCHANGED <<deviceInfo, dom>>
    /\ hist' = H("other", FALSE)
    /\ UNCHANGED <<lsPrefs, lsStart, preferences, refreshInterval,
                   networkListener, timers, nextTimer, subs, nextSub, pendingAdd,
                   pendingRemove, initPc, fetches, ClockVars>>

Restub(p) ==
    /\ Event
    /\ p # prov
    /\ prov' = p
    /\ hist' = [H("other", FALSE) EXCEPT
                   !.initFailing = @ /\ (InitUnderWay => ProvidersFail(p))]
    /\ UNCHANGED <<lsPrefs, lsStart, preferences, deviceInfo, refreshInterval,
                   networkListener, timers, nextTimer, subs, nextSub, pendingAdd,
                   pendingRemove, dom, initPc, fetches, ClockVars>>

Next ==
    \/ InitStart
    \/ InitRender
    \/ \E i \in 1..Len(fetches) : InfoAnswered(i)
    \/ \E i \in 1..Len(fetches) : InitLanded(i)
    \/ InitLoaded
    \/ RefreshInfo
    \/ \E i \in 1..Len(fetches) : RefreshQuery(i)
    \/ \E i \in 1..Len(fetches) : Loaded(i)
    \/ \E id \in timers : TimerTick(id)
    \/ ToggleAutoRefresh
    \/ StartAutoRefresh
    \/ StopAutoRefresh
    \/ SetupNetworkListener
    \/ ListenerAdded
    \/ RemoveNetworkListener
    \/ \E i \in 1..Len(pendingRemove) : ListenerRemoved(i)
    \/ Destroy
    \/ \E st \in MainStatuses : NetworkChange(st)
    \/ \E p \in MainProvs : Restub(p)

Spec == Init /\ [][Next]_vars

\* the controller started on any stored preferences text, arrays included
InitStored == Boot(StoredSlots)

SpecStored == InitStored /\ [][Next]_vars

(***************************************************************************)
(* The controller once App.init has run to its end on working providers    *)
(* and Network has answered the subscription request (specification        *)
(* SpecReady): the page is rendered and shows the first snapshot, the       *)
(* timer runs if the stored preferences ask for it.                         *)
(***************************************************************************)
ReadySlots == {AbsentSlot, Slot(TRUE, PrefsText(TRUE, 5000, FALSE, TRUE, TRUE))}

InitReady ==
    /\ lsPrefs \in ReadySlots
    /\ prov \in {ProvWorking(st) : st \in MainStatuses}
    /\ lsStart = 1000000
    /\ now = 1000000
    /\ preferences = loadPreferences(lsPrefs).val
    /\ LET first == getAllInfo(getDeviceInfo(prov, prov), getNetworkStatus(prov),
                               lsStart, now)
           r == loadDeviceInfo(renderUI(Page("spinner"), preferences).val, NoInfo,
                               first, preferences)
           none == [ri |-> 0, ts |-> {}, nt |-> 1, threw |-> FALSE]
           t == IF Truthy(GetProp(preferences, autoRefreshKey))
                THEN startAutoRefresh(none, preferences) ELSE none
       IN  /\ deviceInfo = r.info
           /\ dom = r.dom
           /\ refreshInterval = t.ri
           /\ timers = t.ts
           /\ nextTimer = t.nt
    /\ networkListener = 1
    /\ subs = {1}
    /\ nextSub = 2
    /\ pendingAdd = 0
    /\ pendingRemove = <<>>
    /\ initPc = InitPc(0, 0)
    /\ fetches = <<>>
    /\ hist = [op |-> "other", threw |-> FALSE, initFailing |-> FALSE,
               fromProviders |-> FALSE, overtaken |-> FALSE, destroyed |-> FALSE]
    /\ advances = 0
    /\ events = 0

SpecReady == InitReady /\ [][Next]_vars

(***************************************************************************)
(* Properties of the controller (specification Spec).                       *)
(***************************************************************************)

\* C1: at most one auto-refresh interval timer is active, and a call of
\* startAutoRefresh leaves exactly one.
C1_SingleTimer ==
    /\ Cardinality(timers) <= 1
    /\ hist.op = "startAutoRefresh" => Cardinality(timers) = 1

\* C2: at most one network-change subscription is active on the Network
\* provider.
C2_SingleSubscription == Cardinality(subs) <= 1

\* C11: every toggleAutoRefresh call that completes leaves the autoRefresh
\* preference the negation of what it was, leaves under appPreferences text
\* that reads back as the in-memory preferences, and leaves an interval
\* timer active exactly when the autoRefresh preference is true.
C11_ToggleConsistent ==
    [][(hist'.op = "toggleAutoRefresh" /\ ~hist'.threw /\ events' = events + 1)
       => (/\ Truthy(GetProp(preferences', autoRefreshKey))
                 = ~Truthy(GetProp(preferences, autoRefreshKey))
           /\ lsPrefs'.present
           /\ JSONparse(lsPrefs'.text) = [ok |-> TRUE, v |-> preferences']
           /\ (timers' # {}) = Truthy(GetProp(preferences', autoRefreshKey))
           /\ (refreshInterval' # 0) = Truthy(GetProp(preferences', autoRefreshKey)))]_vars

\* fetch i, made by refreshInfo or by a timer tick, settles in this step
Lands(i) ==
    /\ fetches[i].origin \in {"refresh", "tick"} /\ fetches[i].stage = "query"
    /\ fetches' = Settled(fetches, i)
    /\ hist'.op \in {"refreshLoaded", "tickLoaded"}
    /\ hist'.overtaken = fetches[i].passed
    /\ UNCHANGED events

\* C12: snapshot fetches in flight at once are not serialized.  Whichever
\* settles is stored and shown, whatever has settled before it: after the
\* settlement the snapshot held is the one its providers answered, and the
\* page (once renderUI has run) shows it; this holds also for a fetch that
\* started before one that has settled already, which so overwrites the
\* newer snapshot.
C12_LastCompletedWins ==
    [][\A i \in 1..Len(fetches) :
          Lands(i) =>
             /\ deviceInfo' = getAllInfo(fetches[i].dq, fetches[i].nq, lsStart, now).val
             /\ dom.shell => dom'.view = deviceInfo']_vars

\* two fetches were in flight at once, the one made later (after the
\* network went offline) settled first, and the one made earlier settled
\* last: the snapshot held and shown says wifi while the network is offline
C12_Witness ==
    /\ hist.op \in {"refreshLoaded", "tickLoaded"} /\ hist.overtaken
    /\ fetches = <<>> /\ InitDone
    /\ prov.status = StatusOffline /\ ProvidersOk(prov)
    /\ deviceInfo # NoInfo /\ deviceInfo.network = StatusRecord(StatusWifi)
    /\ dom.shell /\ dom.view = deviceInfo

\* nothing asynchronous is pending: init is not under way, no snapshot
\* fetch is in flight, Network has settled every addListener and remove()
Quiescent ==
    /\ ~InitUnderWay
    /\ fetches = <<>>
    /\ pendingAdd = 0
    /\ pendingRemove = <<>>

\* C13: once destroy() has been called (and nothing else since) and every
\* pending asynchronous operation has settled, no auto-refresh timer and no
\* network-change subscription is active.
C13_DestroyedIsQuiet ==
    hist.destroyed /\ Quiescent => timers = {} /\ subs = {}

\* the view of the error state: the message and the retry button in place of
\* the loading indicator, no section shown
ErrorView(d) ==
    /\ d.loading = "error" /\ d.loadingShown
    /\ ~d.device /\ ~d.battery /\ ~d.network /\ ~d.app

\* the view of the ready state: loading indicator gone, no error message,
\* device and app sections and the buttons shown, battery and network
\* sections shown when the preferences ask for them
ReadyView(d, prefs) ==
    /\ d.shell /\ ~d.loadingShown /\ d.loading = "spinner"
    /\ d.device /\ d.app /\ d.buttons
    /\ d.battery = Truthy(GetProp(prefs, showBatteryKey))
    /\ d.network = Truthy(GetProp(prefs, showNetworkKey))

InitEnded == hist.op \in {"initLoaded", "initFail"}

\* C4, as claimed: App.init that ran with every provider failing ends in
\* the error state (stated for preferences that are not null, where
\* renderUI does not throw).
C4_InitFailingEndsInError ==
    InitEnded /\ hist.initFailing /\ preferences # JNull => ErrorView(dom)

\* C4, amended: App.init that ran with every provider failing, on
\* preferences that are not null, stores and shows the fallback snapshot
\* when its own fetch settles and, no other init call being under way,
\* ends in the ready state, showing the snapshot held; and a refreshInfo
\* (the retry action) that lands a snapshot the providers answered, after
\* renderUI, leaves the ready state showing that snapshot, with the loading
\* indicator never shown again.
C4_InitFailingEndsReady ==
    /\ hist.op = "initLanded" /\ hist.initFailing /\ preferences # JNull =>
          /\ ReadyView(dom, preferences)
          /\ deviceInfo = Snapshot(getFallbackDeviceInfo, getFallbackNetworkStatus,
                                   lsStart, now)
          /\ dom.view = deviceInfo
    /\ InitEnded /\ hist.initFailing /\ preferences # JNull =>
          hist.op = "initLoaded"
    /\ InitEnded /\ hist.initFailing /\ preferences # JNull /\ ~InitUnderWay =>
          /\ ReadyView(dom, preferences)
          /\ deviceInfo # NoInfo
          /\ dom.view = deviceInfo
    /\ hist.op = "refreshLoaded" /\ hist.fromProviders /\ dom.shell =>
          /\ ReadyView(dom, preferences)
          /\ deviceInfo.model = InfoFull.model
          /\ deviceInfo.battery.level = MainBattery.batteryLevel
          /\ deviceInfo.network \in {StatusRecord(st) : st \in MainStatuses}
          /\ dom.view = deviceInfo

\* init ran with every provider failing and ended; later a refreshInfo
\* landed a snapshot from working providers
C4_Witness ==
    /\ hist.op = "refreshLoaded" /\ hist.fromProviders
    /\ hist.initFailing /\ InitDone
    /\ events = 3
    /\ ReadyView(dom, preferences)
    /\ dom.battery /\ dom.network
    /\ dom.view.model = InfoFull.model

\* C9: destroy() called when no timer and no listener was ever created
\* throws nothing and changes neither the timer handle, the listener
\* handle, the preferences nor the snapshot (nor the timers, the
\* subscriptions and the requests out to the provider).
C9_DestroyNoop ==
    [][(hist'.op = "destroy" /\ events' = events + 1
        /\ nextTimer = 1 /\ nextSub = 1 /\ pendingAdd = 0)
       => (/\ ~hist'.threw
           /\ UNCHANGED <<refreshInterval, networkListener, preferences,
                          deviceInfo, timers, subs, pendingRemove, lsPrefs, dom>>)]_vars

\* destroy() has run with nothing created, after init stored a snapshot
C9_Witness ==
    /\ hist.op = "destroy"
    /\ nextTimer = 1 /\ nextSub = 1 /\ pendingAdd = 0
    /\ deviceInfo # NoInfo /\ InitDone
    /\ pendingRemove = <<>> /\ refreshInterval = 0 /\ networkListener = 0

(***************************************************************************)
(* The queries of DeviceInfo on their own (specification SpecQuery): the    *)
(* providers are drawn from every combination of absent, failing and        *)
(* answering, and a query or a change event is run against them.            *)
(***************************************************************************)
ControllerVars ==
    <<refreshInterval, networkListener, timers, nextTimer, subs, nextSub,
      pendingAdd, pendingRemove, initPc, fetches, events, advances>>

FreshController ==
    /\ refreshInterval = 0
    /\ networkListener = 0
    /\ timers = {}
    /\ nextTimer = 1
    /\ subs = {}
    /\ nextSub = 1
    /\ pendingAdd = 0
    /\ pendingRemove = <<>>
    /\ initPc = InitPc(0, 0)
    /\ fetches = <<>>
    /\ events = 0
    /\ advances = 0

QueryBatteries ==
    {RawBattery(l, c) : l \in {Absent, 0, 175, LevelDenom}, c \in BOOLEAN}

QueryStatuses ==
    {RawStatus(c, t) : c \in BOOLEAN,
                       t \in {"wifi", "cellular", "none", "unknown", "bluetooth",
                              "constructor", ""}}

QueryProvs ==
    {MkProv(cap, dev, net, info, bat, st) :
        cap \in BOOLEAN,
        dev \in {"absent", "infoFails", "batteryFails", "ok"},
        net \in {"absent", "fails", "ok"},
        info \in {InfoFull, InfoEmpty},
        bat \in QueryBatteries,
        st \in QueryStatuses}

Probe(op, out) == [op |-> op, out |-> out]

InitQuery ==
    /\ FreshController
    /\ lsPrefs = AbsentSlot
    /\ lsStart = Absent
    /\ now = 1000000
    /\ preferences = JObj(<<>>)
    /\ deviceInfo = NoInfo
    /\ dom = Page("none")
    /\ prov \in QueryProvs
    /\ hist = Probe("none", NoInfo)

QueryVars == <<lsPrefs, lsStart, now, preferences, deviceInfo, dom, prov>>

CallGetDeviceInfo ==
    /\ hist' = Probe("getDeviceInfo", getDeviceInfo(prov, prov))
    /\ UNCHANGED <<QueryVars, ControllerVars>>

CallGetNetworkStatus ==
    /\ hist' = Probe("getNetworkStatus", getNetworkStatus(prov))
    /\ UNCHANGED <<QueryVars, ControllerVars>>

CallGetAllInfo ==
    /\ hist' = Probe("getAllInfo",
                     getAllInfo(getDeviceInfo(prov, prov), getNetworkStatus(prov),
                                lsStart, now))
    /\ UNCHANGED <<QueryVars, ControllerVars>>

\* Network reports its status to the function addNetworkListener subscribed
StatusChangeEvent ==
    /\ HasNetwork(prov) /\ prov.net = "ok"
    /\ hist' = Probe("networkStatusChange", ListenerStatus(prov.status))
    /\ UNCHANGED <<QueryVars, ControllerVars>>

NextQuery ==
    \/ CallGetDeviceInfo
    \/ CallGetNetworkStatus
    \/ CallGetAllInfo
    \/ StatusChangeEvent

SpecQuery == InitQuery /\ [][NextQuery]_vars

DeviceUnavailable(p) == ~HasDevice(p) \/ p.dev # "ok"

NetworkUnavailable(p) == ~HasNetwork(p) \/ p.net # "ok"

DocumentedDeviceFallback(d) ==
    /\ d.model = "zh:iOS device"
    /\ d.platform = "ios"
    /\ d.manufacturer = "Apple"
    /\ d.battery.level = LevelDenom
    /\ d.battery.charging = FALSE

DocumentedNetworkFallback(n) ==
    /\ n.connected = FALSE
    /\ n.connectionType = "none"

\* C3: getDeviceInfo, getNetworkStatus and getAllInfo always resolve, and
\* the part of the value whose provider is absent or fails is the
\* documented fallback.
C3_QueriesFallBack ==
    /\ hist.op \in {"getDeviceInfo", "getNetworkStatus", "getAllInfo"} =>
          hist.out.kind = "resolve"
    /\ hist.op = "getDeviceInfo" /\ DeviceUnavailable(prov) =>
          DocumentedDeviceFallback(hist.out.val) /\ hist.out.val = getFallbackDeviceInfo
    /\ hist.op = "getNetworkStatus" /\ NetworkUnavailable(prov) =>
          DocumentedNetworkFallback(hist.out.val)
          /\ hist.out.val = getFallbackNetworkStatus
    /\ hist.op = "getAllInfo" /\ DeviceUnavailable(prov) =>
          DocumentedDeviceFallback(hist.out.val)
    /\ hist.op = "getAllInfo" /\ NetworkUnavailable(prov) =>
          DocumentedNetworkFallback(hist.out.val.network)

\* getAllInfo has resolved while Device rejects and Network answers
C3_Witness ==
    /\ hist.op = "getAllInfo"
    /\ prov.cap /\ prov.dev = "batteryFails" /\ prov.net = "ok"
    /\ prov.status = RawStatus(TRUE, "cellular")
    /\ hist.out.kind = "resolve"
    /\ hist.out.val.model = "zh:iOS device"
    /\ hist.out.val.network.typeText = "zh:cellular"

\* C10: the status handed to a network-change listener is the status
\* getNetworkStatus returns for the same raw status.
C10_ListenerSameAsQuery ==
    hist.op = "networkStatusChange" => hist.out = getNetworkStatus(prov).val

(***************************************************************************)
(* formatBatteryInfo on its own (specification SpecBattery): the snapshot   *)
(* holds any battery level of the grid, or none.                            *)
(***************************************************************************)
BatterySnapshot(level, charging) ==
    [getFallbackInfo EXCEPT !.battery = [level |-> level, charging |-> charging]]

InitBattery ==
    /\ FreshController
    /\ lsPrefs = AbsentSlot
    /\ lsStart = Absent
    /\ now = 1000000
    /\ preferences = getDefaultPreferences
    /\ deviceInfo \in {BatterySnapshot(l, c) : l \in {Absent} \cup (0..LevelDenom),
                                               c \in BOOLEAN}
    /\ dom = Page("none")
    /\ prov = ProvAbsent
    /\ hist = Probe("none", NoInfo)

\* App.renderBatteryInfo formats the battery of the snapshot held
FormatBattery ==
    /\ hist' = Probe("formatBatteryInfo", formatBatteryInfo(deviceInfo.battery))
    /\ UNCHANGED <<QueryVars, ControllerVars>>

NextBattery == FormatBattery

SpecBattery == InitBattery /\ [][NextBattery]_vars

LevelClassOf(pct) == IF pct > 50 THEN "high" ELSE IF pct > 20 THEN "medium" ELSE "low"

\* C5: for every battery level from 0.0 to 1.0, formatBatteryInfo reports
\* the level times 100 rounded, with class high above 50, medium above 20,
\* low otherwise.
C5_BatteryClass ==
    hist.op = "formatBatteryInfo" /\ deviceInfo.battery.level \in 0..LevelDenom =>
        /\ hist.out.level = RoundPercent(deviceInfo.battery.level)
        /\ hist.out.levelClass = LevelClassOf(RoundPercent(deviceInfo.battery.level))
        /\ 100 * deviceInfo.battery.level = 55 * LevelDenom => hist.out.levelClass = "high"
        /\ 100 * deviceInfo.battery.level = 50 * LevelDenom => hist.out.levelClass = "medium"
        /\ 100 * deviceInfo.battery.level = 35 * LevelDenom => hist.out.levelClass = "medium"
        /\ 100 * deviceInfo.battery.level = 10 * LevelDenom => hist.out.levelClass = "low"

(***************************************************************************)
(* The uptime display (specification SpecUptime): a snapshot is shown, the  *)
(* clock advances, and the one-second tick of the page calls                *)
(* App.updateUptime.                                                        *)
(***************************************************************************)
\* clock advances, in ms
AdvanceSteps ==
    {500, 1000, 30000, 59000, 60000, 100000, 3540000, 3600000, 86399000, 86400000}

ReadyPage ==
    [Page("none") EXCEPT !.shell = TRUE, !.loading = "spinner", !.device = TRUE,
                         !.battery = TRUE, !.network = TRUE, !.app = TRUE,
                         !.buttons = TRUE]

UptimeProbe(op, elapsed, prev) == [op |-> op, elapsed |-> elapsed, prev |-> prev]

InitUptime ==
    /\ FreshController
    /\ lsPrefs = AbsentSlot
    /\ lsStart = 1000000
    /\ now \in {1000000, 1000500}
    /\ preferences = getDefaultPreferences
    /\ deviceInfo = Snapshot(getFallbackDeviceInfo, getFallbackNetworkStatus, lsStart, now)
    /\ dom = [ReadyPage EXCEPT !.view = deviceInfo, !.netView = deviceInfo.network]
    /\ prov = ProvAbsent
    /\ hist = UptimeProbe("none", 0, deviceInfo.uptime)

Advance(d) ==
    /\ advances < MaxAdvances
    /\ advances' = advances + 1
    /\ now' = now + d
    /\ UNCHANGED <<lsPrefs, lsStart, preferences, deviceInfo, refreshInterval,
                   networkListener, timers, nextTimer, subs, nextSub, pendingAdd,
                   pendingRemove, prov, dom, initPc, fetches, hist, events>>

\* App.updateUptime: #uptimeDisplay exists once renderAppInfo has run
UpdateUptime ==
    /\ IF dom.app /\ deviceInfo # NoInfo
       THEN /\ deviceInfo' = [deviceInfo EXCEPT !.uptime = getUptime(lsStart, now)]
            /\ dom' = [dom EXCEPT !.view = [@ EXCEPT !.uptime = getUptime(lsStart, now)]]
       ELSE UNCHANGED <<deviceInfo, dom>>
    /\ hist' = UptimeProbe("updateUptime", (now - lsStart) \div 1000, deviceInfo.uptime)
    /\ UNCHANGED <<lsPrefs, lsStart, now, preferences, prov, ControllerVars>>

NextUptime ==
    \/ \E d \in AdvanceSteps : Advance(d)
    \/ UpdateUptime

SpecUptime == InitUptime /\ [][NextUptime]_vars

UnitSeconds(u) ==
    CASE u = "zh:days" -> 86400
      [] u = "zh:hours" -> 3600
      [] u = "zh:minutes" -> 60
      [] u = "zh:seconds" -> 1

\* the duration an uptime text states, in seconds
RECURSIVE Encoded(_)
Encoded(text) ==
    IF text = <<>> THEN 0
    ELSE Head(text).n * UnitSeconds(Head(text).u) + Encoded(Tail(text))

\* C6: after e whole seconds the uptime shows days and hours mod 24 from
\* one day on, else hours and minutes mod 60 from one hour on, else minutes
\* and seconds mod 60 from one minute on, else seconds; and the duration it
\* states never decreases as the clock advances.
C6_UptimeFormat ==
    hist.op = "updateUptime" =>
        LET e == hist.elapsed
            u == deviceInfo.uptime
        IN  /\ e >= 86400 =>
                 u = <<Unit(e \div 86400, "zh:days"), Unit((e \div 3600) % 24, "zh:hours")>>
            /\ e >= 3600 /\ e < 86400 =>
                 u = <<Unit(e \div 3600, "zh:hours"), Unit((e \div 60) % 60, "zh:minutes")>>
            /\ e >= 60 /\ e < 3600 =>
                 u = <<Unit(e \div 60, "zh:minutes"), Unit(e % 60, "zh:seconds")>>
            /\ e < 60 => u = <<Unit(e, "zh:seconds")>>
            /\ e = 90 => u = <<Unit(1, "zh:minutes"), Unit(30, "zh:seconds")>>
            /\ e = 3700 => u = <<Unit(1, "zh:hours"), Unit(1, "zh:minutes")>>
            /\ e = 90000 => u = <<Unit(1, "zh:days"), Unit(1, "zh:hours")>>
            /\ Encoded(u) >= Encoded(hist.prev)
            /\ Encoded(u) <= e

\* the uptime was shown after one hour and again after one day and one hour
C6_Witness ==
    /\ hist.op = "updateUptime"
    /\ hist.elapsed = 90000
    /\ deviceInfo.uptime = <<Unit(1, "zh:days"), Unit(1, "zh:hours")>>
    /\ hist.prev = <<Unit(1, "zh:hours"), Unit(0, "zh:minutes")>>

(***************************************************************************)
(* The preferences on their own (specification SpecPrefs): any Preferences  *)
(* object in memory, any stored text; savePreferences, a fresh session      *)
(* (the module is loaded again, localStorage stays), loadPreferences.       *)
(***************************************************************************)
PrefObjects ==
    {JObj(<<Member(autoRefreshKey, JBool(a)),
            Member(refreshIntervalKey, JNum(i)),
            Member(showBatteryKey, JBool(sb)),
            Member(showNetworkKey, JBool(sn)),
            Member(showUptimeKey, JBool(su))>>) :
        a \in BOOLEAN, i \in {1000, 5000, DefaultRefreshInterval},
        sb \in BOOLEAN, sn \in BOOLEAN, su \in BOOLEAN}

PrefSlots ==
    {AbsentSlot, Slot(TRUE, <<>>), Slot(TRUE, GarbageText), Slot(TRUE, TruncatedText),
     Slot(TRUE, NullText), Slot(TRUE, EmptyArrayText), Slot(TRUE, NumberText),
     Slot(TRUE, IndexKeyText),
     Slot(TRUE, PrefsText(TRUE, 5000, FALSE, TRUE, TRUE))}

PrefsProbe(op, threw, saved, fresh) ==
    [op |-> op, threw |-> threw, saved |-> saved, fresh |-> fresh]

InitPrefs ==
    /\ FreshController
    /\ lsPrefs \in PrefSlots
    /\ lsStart = Absent
    /\ now = 1000000
    /\ preferences \in PrefObjects \cup {JObj(<<>>)}
    /\ deviceInfo = NoInfo
    /\ dom = Page("none")
    /\ prov = ProvAbsent
    /\ hist = PrefsProbe("none", FALSE, NoInfo, FALSE)

PrefsFrame == <<lsStart, now, deviceInfo, dom, prov, ControllerVars>>

SavePreferences ==
    /\ lsPrefs' = savePreferences(preferences)
    /\ hist' = PrefsProbe("savePreferences", FALSE, preferences, FALSE)
    /\ UNCHANGED <<preferences, PrefsFrame>>

\* the page is loaded again: App.state is its initializer
FreshSession ==
    /\ preferences' = JObj(<<>>)
    /\ hist' = PrefsProbe("freshSession", FALSE, hist.saved, TRUE)
    /\ UNCHANGED <<lsPrefs, PrefsFrame>>

LoadPreferences ==
    /\ preferences' = IF loadPreferences(lsPrefs).threw THEN preferences
                      ELSE loadPreferences(lsPrefs).val
    /\ hist' = PrefsProbe("loadPreferences", loadPreferences(lsPrefs).threw,
                          hist.saved, hist.fresh)
    /\ UNCHANGED <<lsPrefs, PrefsFrame>>

NextPrefs ==
    \/ SavePreferences
    \/ FreshSession
    \/ LoadPreferences

SpecPrefs == InitPrefs /\ [][NextPrefs]_vars

\* a stored value that is no JSON text, or JSON that is no object
Corrupted(slot) ==
    /\ SavedTruthy(slot)
    /\ ~JSONparse(slot.text).ok \/ JSONparse(slot.text).v.t # "obj"

\* C7: for every corrupted stored value, loadPreferences throws nothing and
\* leaves the default Preferences object in memory.
C7_CorruptedGivesDefaults ==
    hist.op = "loadPreferences" /\ Corrupted(lsPrefs) =>
        /\ ~hist.threw
        /\ preferences = getDefaultPreferences

\* C8: a Preferences object saved by savePreferences is the object
\* loadPreferences leaves in memory in a fresh session.
C8_RoundTrip ==
    hist.op = "loadPreferences" /\ hist.fresh /\ hist.saved # NoInfo =>
        /\ ~hist.threw
        /\ preferences = hist.saved

\* an object that differs from the defaults in every field was saved and
\* loaded back in a fresh session
C8_Witness ==
    /\ hist.op = "loadPreferences" /\ hist.fresh
    /\ hist.saved = JObj(<<Member(autoRefreshKey, JBool(TRUE)),
                           Member(refreshIntervalKey, JNum(1000)),
                           Member(showBatteryKey, JBool(FALSE)),
                           Member(showNetworkKey, JBool(FALSE)),
                           Member(showUptimeKey, JBool(FALSE))>>)
    /\ preferences = hist.saved

====
